---- MODULE Spec2Model ----
(***************************************************************************)
(* Model of jaxopt/_src/anderson_wrapper.py: the AndersonWrapper solver,   *)
(* which accelerates a wrapped iterative solver with Anderson mixing.      *)
(*                                                                         *)
(* Numbers are integers: a point (pytree) has two integer leaves, products *)
(* and sums are exact, and the two places where the program divides or     *)
(* takes a root (the normalisation of the Anderson coefficients, the l2    *)
(* norm) round towards minus infinity.                                     *)
(***************************************************************************)
EXTENDS Integers, Sequences, FiniteSets, TLC

\* ------------------------------------------------------------------ bounds
MaxCoord == 4            \* first leaf of an initial guess: -MaxCoord..MaxCoord
MaxHistory == 2          \* history_size ranges over 1..MaxHistory
MaxSolverMaxiter == 2    \* solver.maxiter ranges over 0..MaxSolverMaxiter
MaxUpdates == 3          \* update calls threaded after one init

Leaves == {0, 1}
Points == {[k \in Leaves |-> IF k = 0 THEN c ELSE d] :
             c \in (-MaxCoord) .. MaxCoord, d \in {-1, 0, 2}}
ArgSet == {0, 1}         \* the extra argument (*args) of init and update
\* beta and ridge: classical Anderson (beta = 1) and pure iterate mixing
\* (beta = 0), each with a ridge > 0
Mixings == {[beta |-> 1, ridge |-> 1], [beta |-> 0, ridge |-> 2]}
TolSet == {1, 2}         \* solver.tol, in units of the smallest tolerance
SolverKinds == {"halve", "grid", "momentum", "fragile"}

\* ------------------------------------------- structured-value arithmetic
RECURSIVE SumTo(_, _)
\* f[0] + ... + f[n-1]
SumTo(f, n) == IF n = 0 THEN 0 ELSE f[n - 1] + SumTo(f, n - 1)

Abs(x) == IF x < 0 THEN 0 - x ELSE x

RECURSIVE ISqrtFrom(_, _)
ISqrtFrom(n, r) == IF (r + 1) * (r + 1) > n THEN r ELSE ISqrtFrom(n, r + 1)

\* floor of the square root
ISqrt(n) == ISqrtFrom(n, 0)

tree_sub(a, b) == [k \in Leaves |-> a[k] - b[k]]

tree_vdot(a, b) == a[0] * b[0] + a[1] * b[1]

tree_l2_norm(a) == ISqrt(tree_vdot(a, a))

tree_l1_norm(a) == Abs(a[0]) + Abs(a[1])

ZeroPoint == [k \in Leaves |-> 0]

\* ------------------------------------------------------ the wrapped solver
\* The wrapped solver is an external collaborator: any object with init and
\* update and a state that carries an error.  Three solvers stand for it:
\*   halve     x -> (x + a) / 2, error = l2 norm of the step;
\*   grid      as halve, but init projects the point onto the even lattice
\*             and the error is the l1 norm of the step;
\*   momentum  a heavy-ball iteration whose step depends on the velocity
\*             kept in the solver state; error = squared length of the step;
\*   fragile   as halve, but init raises on a point whose second leaf is
\*             odd and update raises on a point whose first leaf is odd.
Solvers == [kind : SolverKinds, maxiter : 0 .. MaxSolverMaxiter, tol : TolSet]

Half(x, a) == [k \in Leaves |-> (x[k] + a) \div 2]

SnapEven(x) == [k \in Leaves |-> x[k] - (x[k] % 2)]

\* whether solver.init(x, a) raises
solver_init_raises(solver, x, a) == solver.kind = "fragile" /\ x[1] % 2 = 1

\* whether solver.update(x, st, a) raises
solver_update_raises(solver, x, st, a) == solver.kind = "fragile" /\ x[0] % 2 = 1

\* what solver.init(x, a) returns when it does not raise
solver_init(solver, x, a) ==
  [params |-> IF solver.kind = "grid" THEN SnapEven(x) ELSE x,
   state  |-> [iter_num |-> 0, error |-> 0, velocity |-> ZeroPoint]]

\* what solver.update(x, st, a) returns when it does not raise
solver_update(solver, x, st, a) ==
  LET step == tree_sub(Half(x, a), x)
      vel  == IF solver.kind = "momentum"
              THEN [k \in Leaves |-> step[k] + (st.velocity[k] \div 2)]
              ELSE step
      y    == [k \in Leaves |-> x[k] + vel[k]]
      err  == CASE solver.kind \in {"halve", "fragile"} -> tree_l2_norm(vel)
                [] solver.kind = "grid"     -> tree_l1_norm(vel)
                [] solver.kind = "momentum" -> tree_vdot(vel, vel)
  IN  [params |-> y,
       state  |-> [iter_num |-> st.iter_num + 1, error |-> err,
                   velocity |-> vel]]

\* solver.optimality_fun: the residual of the solver's fixed-point map.
solver_optimality_fun(solver, x, a) == tree_sub(Half(x, a), x)

\* --------------------------------------------------------- history buffer
\* build_history(history): history is the list of history_size+1 iterates.
build_history(history) ==
  LET m   == Len(history) - 1
      ph  == [i \in 0 .. m |-> history[i + 1]]
      rh  == [i \in 0 .. (m - 1) |-> tree_sub(history[i + 2], history[i + 1])]
      gr  == [i \in 0 .. (m - 1) |->
                [j \in 0 .. (m - 1) |-> tree_vdot(rh[i], rh[j])]]
  IN  [params_history |-> ph, residuals_history |-> rh, residual_gram |-> gr]

\* Writing at an index outside the array leaves the array as it is.
ReplaceElem(arr, pos, v) == [i \in DOMAIN arr |-> IF i = pos THEN v ELSE arr[i]]

update_history(pos, params_history, residuals_history, residual_gram, extrapolated, residual) ==
  LET ph      == ReplaceElem(params_history, pos, extrapolated)
      rh      == ReplaceElem(residuals_history, pos, residual)
      new_row == [j \in DOMAIN rh |-> tree_vdot(residual, rh[j])]
      gr      == [i \in DOMAIN residual_gram |->
                   [j \in DOMAIN residual_gram[i] |->
                      IF i = pos THEN new_row[j]
                      ELSE IF j = pos THEN new_row[i]
                      ELSE residual_gram[i][j]]]
  IN  [params_history |-> ph, residuals_history |-> rh, residual_gram |-> gr,
       error |-> tree_l2_norm(residual)]

\* ------------------------------------------------------ Anderson step
Minor(M, n, col) ==
  [i \in 0 .. (n - 2) |->
     [j \in 0 .. (n - 2) |-> M[i + 1][IF j < col THEN j ELSE j + 1]]]

RECURSIVE Det(_, _)
\* determinant of the n x n matrix M, by expansion along row 0
Det(M, n) ==
  IF n = 0 THEN 1
  ELSE IF n = 1 THEN M[0][0]
  ELSE SumTo([j \in 0 .. (n - 1) |->
                (IF j % 2 = 0 THEN 1 ELSE -1) * M[0][j]
                  * Det(Minor(M, n, j), n - 1)], n)

\* Solve (G + ridge I) alpha = 1 and normalise alpha to sum 1.  By Cramer's
\* rule alpha[i] = Coef[i] / CoefSum, where Coef[i] is the determinant of
\* G + ridge I with column i replaced by ones: the determinant of the system
\* cancels in the normalisation.  With ridge > 0 the matrix is positive
\* definite, so the sum of the coefficients is positive and the division in
\* anderson_step is defined.
minimize_residuals(residual_gram, ridge) ==
  LET m  == Cardinality(DOMAIN residual_gram)
      A  == [i \in 0 .. (m - 1) |->
               [j \in 0 .. (m - 1) |->
                  residual_gram[i][j] + (IF i = j THEN ridge ELSE 0)]]
      Rep(c) == [i \in 0 .. (m - 1) |->
                   [j \in 0 .. (m - 1) |-> IF j = c THEN 1 ELSE A[i][j]]]
  IN  [c \in 0 .. (m - 1) |-> Det(Rep(c), m)]

anderson_step(params_history, residuals_history, residual_gram, ridge, beta) ==
  LET m     == Cardinality(DOMAIN residuals_history)
      coef  == minimize_residuals(residual_gram, ridge)
      total == SumTo(coef, m)
      mix(k) == SumTo([i \in 0 .. (m - 1) |->
                  coef[i] * (params_history[i][k]
                             + beta * residuals_history[i][k])], m)
  IN  [k \in Leaves |-> mix(k) \div total]

\* ------------------------------------------------------- AndersonWrapper
Configs ==
  {[solver |-> s, history_size |-> h, beta |-> m.beta, ridge |-> m.ridge] :
     s \in Solvers, h \in 1 .. MaxHistory, m \in Mixings}

\* Mutant: the warm-up steps are not taken off the iteration budget.
post_init_keepsMaxiter(cfg) ==
  IF cfg.solver.maxiter - cfg.history_size < 0
  THEN [raised |-> TRUE,
        self   |-> [solver |-> cfg.solver, history_size |-> cfg.history_size,
                    beta |-> cfg.beta, ridge |-> cfg.ridge,
                    maxiter |-> cfg.solver.maxiter, tol |-> 0]]
  ELSE [raised |-> FALSE,
        self   |-> [solver |-> cfg.solver, history_size |-> cfg.history_size,
                    beta |-> cfg.beta, ridge |-> cfg.ridge,
                    maxiter |-> cfg.solver.maxiter, tol |-> cfg.solver.tol]]

\* __post_init__: the fields it sets, and whether it raised ValueError.
post_init(cfg) ==
  LET maxiter == cfg.solver.maxiter - cfg.history_size
  IN  IF maxiter < 0
      THEN [raised |-> TRUE,
            self   |-> [solver |-> cfg.solver, history_size |-> cfg.history_size,
                        beta |-> cfg.beta, ridge |-> cfg.ridge,
                        maxiter |-> maxiter, tol |-> 0]]
      ELSE [raised |-> FALSE,
            self   |-> [solver |-> cfg.solver, history_size |-> cfg.history_size,
                        beta |-> cfg.beta, ridge |-> cfg.ridge,
                        maxiter |-> maxiter, tol |-> cfg.solver.tol]]

\* A call of the wrapped solver, as the solver sees it.
InitCallRec(x, a) == [fn |-> "init", params |-> x, args |-> a]

UpdateCallRec(x, st, a) == [fn |-> "update", params |-> x, state |-> st, args |-> a]

RECURSIVE warmup_staleState(_, _, _, _, _, _, _)
\* Mutant: every warm-up update gets the inner state that init returned.
warmup_staleState(slf, n, params, solver_state, a, history, calls) ==
  IF n = 0
  THEN [raised |-> FALSE, params |-> params, solver_state |-> solver_state,
        history |-> history, calls |-> calls]
  ELSE IF solver_update_raises(slf.solver, params, solver_state, a)
  THEN [raised |-> TRUE,
        calls |-> Append(calls, UpdateCallRec(params, solver_state, a))]
  ELSE LET r == solver_update(slf.solver, params, solver_state, a)
       IN  warmup_staleState(slf, n - 1, r.params,
                  IF n = 1 THEN r.state ELSE solver_state, a,
                  Append(history, r.params),
                  Append(calls, UpdateCallRec(params, solver_state, a)))

RECURSIVE warmup_short(_, _, _, _, _, _, _)
\* Mutant: the loop runs history_size - 1 times.
warmup_short(slf, n, params, solver_state, a, history, calls) ==
  IF n <= 1
  THEN [raised |-> FALSE, params |-> params, solver_state |-> solver_state,
        history |-> history, calls |-> calls]
  ELSE IF solver_update_raises(slf.solver, params, solver_state, a)
  THEN [raised |-> TRUE,
        calls |-> Append(calls, UpdateCallRec(params, solver_state, a))]
  ELSE LET r == solver_update(slf.solver, params, solver_state, a)
       IN  warmup_short(slf, n - 1, r.params, r.state, a,
                  Append(history, r.params),
                  Append(calls, UpdateCallRec(params, solver_state, a)))

RECURSIVE warmup_defaultArgs(_, _, _, _, _, _, _)
\* Mutant: the warm-up updates are called without the extra arguments.
warmup_defaultArgs(slf, n, params, solver_state, a, history, calls) ==
  IF n = 0
  THEN [raised |-> FALSE, params |-> params, solver_state |-> solver_state,
        history |-> history, calls |-> calls]
  ELSE IF solver_update_raises(slf.solver, params, solver_state, 0)
  THEN [raised |-> TRUE,
        calls |-> Append(calls, UpdateCallRec(params, solver_state, 0))]
  ELSE LET r == solver_update(slf.solver, params, solver_state, 0)
       IN  warmup_defaultArgs(slf, n - 1, r.params, r.state, a,
                  Append(history, r.params),
                  Append(calls, UpdateCallRec(params, solver_state, 0)))

RECURSIVE warmup(_, _, _, _, _, _, _)
\* the loop of init: n more solver.update calls, each appended to history;
\* a call that raises ends init
warmup(slf, n, params, solver_state, a, history, calls) ==
  IF n = 0
  THEN [raised |-> FALSE, params |-> params, solver_state |-> solver_state,
        history |-> history, calls |-> calls]
  ELSE IF solver_update_raises(slf.solver, params, solver_state, a)
  THEN [raised |-> TRUE,
        calls |-> Append(calls, UpdateCallRec(params, solver_state, a))]
  ELSE LET r == solver_update(slf.solver, params, solver_state, a)
       IN  warmup(slf, n - 1, r.params, r.state, a,
                  Append(history, r.params),
                  Append(calls, UpdateCallRec(params, solver_state, a)))

\* AndersonWrapper.init(init_params, *args)
init(slf, init_params, a) ==
  IF solver_init_raises(slf.solver, init_params, a)
  THEN [raised |-> TRUE, calls |-> <<InitCallRec(init_params, a)>>]
  ELSE
  LET r0 == solver_init(slf.solver, init_params, a)
      w  == warmup(slf, slf.history_size, r0.params, r0.state, a,
                   <<r0.params>>, <<InitCallRec(init_params, a)>>)
      h  == build_history(w.history)
  IN  IF w.raised
      THEN [raised |-> TRUE, calls |-> w.calls]
      ELSE [raised |-> FALSE,
            params |-> w.params,
            state  |-> [iter_num |-> 0,
                        solver_state |-> w.solver_state,
                        error |-> w.solver_state.error,
                        params_history |-> h.params_history,
                        residuals_history |-> h.residuals_history,
                        residual_gram |-> h.residual_gram],
            calls  |-> w.calls,
            bh     |-> w.history]

\* Mutant: the slot is taken modulo the length of params_history.
position_modPlusOne(slf, state) == state.iter_num % (slf.history_size + 1)

\* Mutant: the slots are counted from 1.
position_oneBased(slf, state) == (state.iter_num % slf.history_size) + 1

\* Mutant: every update overwrites the last slot.
position_lastSlot(slf, state) == slf.history_size - 1

\* pos = jnp.mod(state.iter_num, self.history_size)
position(slf, state) == state.iter_num % slf.history_size

\* Mutant: the point that init returns is dropped; history and the inner
\* update use the point of the Anderson step.
inner_iteration_keepAnderson(slf, state, anderson, a) ==
  IF solver_init_raises(slf.solver, anderson, a)
  THEN [raised |-> TRUE, calls |-> <<InitCallRec(anderson, a)>>]
  ELSE
  LET r1 == solver_init(slf.solver, anderson, a)
      r2 == solver_update(slf.solver, anderson, r1.state, a)
  IN  IF solver_update_raises(slf.solver, anderson, r1.state, a)
      THEN [raised |-> TRUE,
            calls |-> <<InitCallRec(anderson, a),
                        UpdateCallRec(anderson, r1.state, a)>>]
      ELSE [raised |-> FALSE,
            extrapolated |-> anderson,
            next_params  |-> r2.params,
            solver_state |-> r2.state,
            calls |-> <<InitCallRec(anderson, a),
                        UpdateCallRec(anderson, r1.state, a)>>]

\* Mutant: the inner update continues from the inner state stored in the
\* wrapper state.
inner_iteration_reuseInnerState(slf, state, anderson, a) ==
  IF solver_init_raises(slf.solver, anderson, a)
  THEN [raised |-> TRUE, calls |-> <<InitCallRec(anderson, a)>>]
  ELSE
  LET r1 == solver_init(slf.solver, anderson, a)
      r2 == solver_update(slf.solver, r1.params, state.solver_state, a)
  IN  IF solver_update_raises(slf.solver, r1.params, state.solver_state, a)
      THEN [raised |-> TRUE,
            calls |-> <<InitCallRec(anderson, a),
                        UpdateCallRec(r1.params, state.solver_state, a)>>]
      ELSE [raised |-> FALSE,
            extrapolated |-> r1.params,
            next_params  |-> r2.params,
            solver_state |-> r2.state,
            calls |-> <<InitCallRec(anderson, a),
                        UpdateCallRec(r1.params, state.solver_state, a)>>]

\* Mutant: the wrapped solver's init is not called; the inner update starts
\* from the point of the Anderson step with the stored inner state.
inner_iteration_noInit(slf, state, anderson, a) ==
  LET r1 == [params |-> anderson, state |-> state.solver_state]
      r2 == solver_update(slf.solver, r1.params, r1.state, a)
  IN  IF solver_update_raises(slf.solver, r1.params, r1.state, a)
      THEN [raised |-> TRUE,
            calls |-> <<UpdateCallRec(r1.params, r1.state, a)>>]
      ELSE [raised |-> FALSE,
            extrapolated |-> r1.params,
            next_params  |-> r2.params,
            solver_state |-> r2.state,
            calls |-> <<UpdateCallRec(r1.params, r1.state, a)>>]

\* Mutant: when the wrapped solver's init raises, the error is swallowed
\* and the inner update starts from the point of the Anderson step with the
\* stored inner state.
inner_iteration_swallowsInitError(slf, state, anderson, a) ==
  LET failed == solver_init_raises(slf.solver, anderson, a)
      r1 == IF failed
            THEN [params |-> anderson, state |-> state.solver_state]
            ELSE solver_init(slf.solver, anderson, a)
      r2 == solver_update(slf.solver, r1.params, r1.state, a)
  IN  IF solver_update_raises(slf.solver, r1.params, r1.state, a)
      THEN [raised |-> TRUE,
            calls |-> <<InitCallRec(anderson, a),
                        UpdateCallRec(r1.params, r1.state, a)>>]
      ELSE [raised |-> FALSE,
            extrapolated |-> r1.params,
            next_params  |-> r2.params,
            solver_state |-> r2.state,
            calls |-> <<InitCallRec(anderson, a),
                        UpdateCallRec(r1.params, r1.state, a)>>]

\* The two calls of update to the wrapped solver: init on the point of the
\* Anderson step, which rebinds extrapolated, then one update; a call that
\* raises ends update.
inner_iteration(slf, state, anderson, a) ==
  IF solver_init_raises(slf.solver, anderson, a)
  THEN [raised |-> TRUE, calls |-> <<InitCallRec(anderson, a)>>]
  ELSE
  LET r1 == solver_init(slf.solver, anderson, a)
      r2 == solver_update(slf.solver, r1.params, r1.state, a)
  IN  IF solver_update_raises(slf.solver, r1.params, r1.state, a)
      THEN [raised |-> TRUE,
            calls |-> <<InitCallRec(anderson, a),
                        UpdateCallRec(r1.params, r1.state, a)>>]
      ELSE [raised |-> FALSE,
            extrapolated |-> r1.params,
            next_params  |-> r2.params,
            solver_state |-> r2.state,
            calls |-> <<InitCallRec(anderson, a),
                        UpdateCallRec(r1.params, r1.state, a)>>]

\* Mutant: the Gram matrix of the input state is kept.
next_state_staleGram(state, solver_state, ret) ==
  [iter_num |-> state.iter_num + 1,
   solver_state |-> solver_state,
   error |-> solver_state.error,
   params_history |-> ret.params_history,
   residuals_history |-> ret.residuals_history,
   residual_gram |-> state.residual_gram]

\* Mutant: the counter is taken from the inner solver's state.
next_state_innerIterNum(state, solver_state, ret) ==
  [iter_num |-> solver_state.iter_num,
   solver_state |-> solver_state,
   error |-> solver_state.error,
   params_history |-> ret.params_history,
   residuals_history |-> ret.residuals_history,
   residual_gram |-> ret.residual_gram]

\* Mutant: the error is the one that update_history returned.
next_state_historyError(state, solver_state, ret) ==
  [iter_num |-> state.iter_num + 1,
   solver_state |-> solver_state,
   error |-> ret.error,
   params_history |-> ret.params_history,
   residuals_history |-> ret.residuals_history,
   residual_gram |-> ret.residual_gram]

\* The AndersonWrapperState that update returns; ret is what update_history
\* returned.
next_state(state, solver_state, ret) ==
  [iter_num |-> state.iter_num + 1,
   solver_state |-> solver_state,
   error |-> solver_state.error,
   params_history |-> ret.params_history,
   residuals_history |-> ret.residuals_history,
   residual_gram |-> ret.residual_gram]

\* An AndersonWrapperState is an immutable tuple: iter_num and error are
\* numbers, the four other fields refer to objects (the inner solver's state,
\* two pytrees of arrays, an array).  A heap maps a reference to the value of
\* the object it refers to; a reference is the path by which the object was
\* first reached.  state_objects(state) is the heap on entry of update: the
\* objects of the state that the caller passed in.
state_objects(state) ==
  [r \in {"state.solver_state", "state.params_history",
          "state.residuals_history", "state.residual_gram"} |->
     CASE r = "state.solver_state"      -> state.solver_state
       [] r = "state.params_history"    -> state.params_history
       [] r = "state.residuals_history" -> state.residuals_history
       [] r = "state.residual_gram"     -> state.residual_gram]

\* The value of the tuple state, its objects read from heap.
state_value(state, heap) ==
  [iter_num          |-> state.iter_num,
   solver_state      |-> heap["state.solver_state"],
   error             |-> state.error,
   params_history    |-> heap["state.params_history"],
   residuals_history |-> heap["state.residuals_history"],
   residual_gram     |-> heap["state.residual_gram"]]

\* The frame of update after lines 119-121: the local names params_history,
\* residuals_history and residual_gram refer to the objects of state; the
\* name error is not bound yet.
frame_on_entry(state) ==
  [env  |-> [params_history    |-> "state.params_history",
             residuals_history |-> "state.residuals_history",
             residual_gram     |-> "state.residual_gram",
             error             |-> "unbound"],
   heap |-> state_objects(state)]

\* What the local names of a frame stand for: the values of the objects
\* they refer to, and the number bound to error.
named_values(frame) ==
  [params_history    |-> frame.heap[frame.env.params_history],
   residuals_history |-> frame.heap[frame.env.residuals_history],
   residual_gram     |-> frame.heap[frame.env.residual_gram],
   error             |-> frame.env.error]

\* Mutant: the histories and the matrix that update_history returned are
\* stored into the objects the local names refer to
\* (params_history[...] = ret[0]); the names are not rebound.
unpack_ret_inPlace(frame, ret) ==
  [env  |-> [frame.env EXCEPT !.error = ret.error],
   heap |-> [frame.heap EXCEPT
               ![frame.env.params_history]    = ret.params_history,
               ![frame.env.residuals_history] = ret.residuals_history,
               ![frame.env.residual_gram]     = ret.residual_gram]]

\* Line 132: params_history, residuals_history, residual_gram, error = ret.
\* update_history returned new objects; the local names are rebound to them
\* and no object of the heap is written.
unpack_ret(frame, ret) ==
  [env  |-> [params_history    |-> "ret.params_history",
             residuals_history |-> "ret.residuals_history",
             residual_gram     |-> "ret.residual_gram",
             error             |-> ret.error],
   heap |-> [r \in DOMAIN frame.heap \cup {"ret.params_history",
                                           "ret.residuals_history",
                                           "ret.residual_gram"} |->
               CASE r = "ret.params_history"    -> ret.params_history
                 [] r = "ret.residuals_history" -> ret.residuals_history
                 [] r = "ret.residual_gram"     -> ret.residual_gram
                 [] OTHER                       -> frame.heap[r]]]

\* Mutant: the inner iteration starts from params, not from the point of
\* the Anderson step.
update_usesParams(slf, params, state, a) ==
  LET frame0   == frame_on_entry(state)
      old      == named_values(frame0)
      pos      == position(slf, state)
      anderson == anderson_step(old.params_history, old.residuals_history,
                                old.residual_gram, slf.ridge, slf.beta)
      it       == inner_iteration(slf, state, params, a)
      residual == tree_sub(it.next_params, it.extrapolated)
      ret      == update_history(pos, old.params_history,
                                 old.residuals_history, old.residual_gram,
                                 it.extrapolated, residual)
      frame1   == unpack_ret(frame0, ret)
  IN  IF it.raised
      THEN [raised |-> TRUE, arg |-> state_value(state, frame0.heap),
            calls |-> it.calls]
      ELSE [raised |-> FALSE,
            params |-> it.next_params,
            state  |-> next_state(state, it.solver_state, named_values(frame1)),
            arg    |-> state_value(state, frame1.heap),
            calls  |-> it.calls,
            uh     |-> [pos |-> pos, anderson |-> anderson,
                        new_param |-> it.extrapolated,
                        new_residual |-> residual, error |-> ret.error]]

\* AndersonWrapper.update(params, state, *args); params is deleted on entry.
\* The statements of update act on a frame: local names and a heap of
\* objects.  anderson_step, the wrapped solver and update_history read the
\* objects they are passed and return new ones.  arg is the value of the
\* state that was passed in, read from the heap as update leaves it.
update(slf, params, state, a) ==
  LET frame0   == frame_on_entry(state)
      old      == named_values(frame0)
      pos      == position(slf, state)
      anderson == anderson_step(old.params_history, old.residuals_history,
                                old.residual_gram, slf.ridge, slf.beta)
      it       == inner_iteration(slf, state, anderson, a)
      residual == tree_sub(it.next_params, it.extrapolated)
      ret      == update_history(pos, old.params_history,
                                 old.residuals_history, old.residual_gram,
                                 it.extrapolated, residual)
      frame1   == unpack_ret(frame0, ret)
  IN  IF it.raised
      THEN [raised |-> TRUE, arg |-> state_value(state, frame0.heap),
            calls |-> it.calls]
      ELSE [raised |-> FALSE,
            params |-> it.next_params,
            state  |-> next_state(state, it.solver_state, named_values(frame1)),
            arg    |-> state_value(state, frame1.heap),
            calls  |-> it.calls,
            uh     |-> [pos |-> pos, anderson |-> anderson,
                        new_param |-> it.extrapolated,
                        new_residual |-> residual, error |-> ret.error]]

OptimalityCallRec(x, a) == [fn |-> "optimality_fun", params |-> x, args |-> a]

\* Mutant: the extra arguments are not forwarded.
optimality_fun_dropsArgs(slf, params, a) ==
  [value |-> solver_optimality_fun(slf.solver, params, 0),
   calls |-> <<OptimalityCallRec(params, 0)>>]

\* AndersonWrapper.optimality_fun(params, *args)
optimality_fun(slf, params, a) ==
  [value |-> solver_optimality_fun(slf.solver, params, a),
   calls |-> <<OptimalityCallRec(params, a)>>]

\* ------------------------------------------------------------ the program
VARIABLES
  pc,         \* "new", "failed" (construction raised), "constructed", "running"
  self,       \* the wrapper object
  params,     \* the params of the last OptStep returned
  state,      \* the AndersonWrapperState of the last OptStep returned
  inp,        \* the arguments of the last call, as the caller holds them after it
  last,       \* the last operation called: "none", "construct", "init", "update"
  exc,        \* what the last operation raised: "none", "ValueError", "SolverError"
  calls,      \* the calls the last operation made to the wrapped solver
  hist,       \* what the last operation exchanged with the history buffer
  n_updates,  \* update calls threaded since init
  opt,        \* the value returned, when the last call was optimality_fun
  inner_inits,    \* calls of solver.init since construction
  inner_updates,  \* calls of solver.update since construction
  pos_log,    \* the positions passed to update_history since init, in order
  res_writer  \* per slot of residuals_history, the number of the update that
              \* wrote it, 0 when init wrote it

vars == <<pc, self, params, state, inp, last, exc, calls, hist, n_updates, opt,
          inner_inits, inner_updates, pos_log, res_writer>>

None == "none"

\* the number of calls of solver.fn in a call log
CountCalls(log, fn) == Cardinality({i \in 1 .. Len(log) : log[i].fn = fn})

Init ==
  /\ pc = "new"
  /\ self = None
  /\ params = None
  /\ state = None
  /\ inp = None
  /\ last = "none"
  /\ exc = "none"
  /\ calls = <<>>
  /\ hist = None
  /\ n_updates = 0
  /\ opt = None
  /\ inner_inits = 0
  /\ inner_updates = 0
  /\ pos_log = <<>>
  /\ res_writer = None

\* AndersonWrapper(solver, history_size, beta, ridge)
Construct ==
  /\ pc = "new"
  /\ \E cfg \in Configs :
       LET r == post_init(cfg)
       IN  /\ pc' = IF r.raised THEN "failed" ELSE "constructed"
           /\ exc' = IF r.raised THEN "ValueError" ELSE "none"
           /\ self' = r.self
  /\ last' = "construct"
  /\ calls' = <<>>
  /\ UNCHANGED <<params, state, inp, hist, n_updates, opt,
                 inner_inits, inner_updates, pos_log, res_writer>>

\* wrapper.init(x0, a).  An exception of the wrapped solver reaches the
\* caller, whose variables keep their values, and ends the run.
InitCall ==
  /\ pc = "constructed"
  /\ exc = "none"
  /\ \E x0 \in Points, a \in ArgSet :
       LET r == init(self, x0, a)
       IN  /\ calls' = r.calls
           /\ inp' = [params |-> x0, args |-> a]
           /\ inner_inits' = inner_inits + CountCalls(r.calls, "init")
           /\ inner_updates' = inner_updates + CountCalls(r.calls, "update")
           /\ IF r.raised
              THEN /\ exc' = "SolverError"
                   /\ hist' = None
                   /\ UNCHANGED <<pc, params, state, res_writer>>
              ELSE /\ exc' = "none"
                   /\ pc' = "running"
                   /\ params' = r.params
                   /\ state' = r.state
                   /\ hist' = [bh |-> r.bh]
                   /\ res_writer' = [i \in DOMAIN r.state.residuals_history |-> 0]
  /\ last' = "init"
  /\ n_updates' = 0
  /\ opt' = None
  /\ pos_log' = <<>>
  /\ UNCHANGED self

\* wrapper.update(params, state, a), threading the last OptStep
UpdateCall ==
  /\ pc = "running"
  /\ exc = "none"
  /\ n_updates < MaxUpdates
  /\ \E a \in ArgSet :
       LET r == update(self, params, state, a)
       IN  /\ calls' = r.calls
           /\ inp' = [params |-> params, state |-> r.arg, args |-> a]
           /\ inner_inits' = inner_inits + CountCalls(r.calls, "init")
           /\ inner_updates' = inner_updates + CountCalls(r.calls, "update")
           /\ IF r.raised
              THEN /\ exc' = "SolverError"
                   /\ hist' = None
                   /\ UNCHANGED <<params, state, n_updates, pos_log, res_writer>>
              ELSE /\ exc' = "none"
                   /\ params' = r.params
                   /\ state' = r.state
                   /\ hist' = [uh |-> r.uh]
                   /\ n_updates' = n_updates + 1
                   /\ pos_log' = Append(pos_log, r.uh.pos)
                   /\ res_writer' = ReplaceElem(res_writer, r.uh.pos, n_updates + 1)
  /\ last' = "update"
  /\ opt' = None
  /\ UNCHANGED <<pc, self>>

\* wrapper.optimality_fun(params, a), at the params of the last OptStep
OptimalityCall ==
  /\ pc = "running"
  /\ exc = "none"
  /\ \E a \in ArgSet :
       LET r == optimality_fun(self, params, a)
       IN  /\ opt' = r.value
           /\ calls' = r.calls
           /\ inp' = [params |-> params, state |-> state, args |-> a]
  /\ last' = "optimality_fun"
  /\ UNCHANGED <<pc, self, params, state, exc, hist, n_updates,
                 inner_inits, inner_updates, pos_log, res_writer>>

Next == Construct \/ InitCall \/ UpdateCall \/ OptimalityCall

Spec == Init /\ [][Next]_vars

\* ----------------------------------------------------------------- claims
hs == self.history_size

\* the last call was an init, an update, that returned
Inited == last = "init" /\ exc = "none"

Updated == last = "update" /\ exc = "none"

\* The point of the Anderson step over the history the caller passed in.
AndersonOfInput ==
  anderson_step(inp.state.params_history, inp.state.residuals_history,
                inp.state.residual_gram, self.ridge, self.beta)

\* What the wrapped solver's init returns on that point.
InnerInitOfInput == solver_init(self.solver, AndersonOfInput, inp.args)

\* C1: constructing the wrapper with history_size >= solver.maxiter, the
\* equality case included, raises ValueError, and no call to the wrapped
\* solver has been made at that point.
C1_GuardRejectsHistoryAtLeastMaxiter ==
  (last = "construct" /\ self.history_size >= self.solver.maxiter)
    => (pc = "failed" /\ calls = <<>>)

\* C2: the error of the state that update returns is the error that
\* update_history returned for the step, the l2 norm of the new residual
\* next_point - extrapolated.
C2_ErrorIsHistoryError ==
  Updated
    => /\ state.error = hist.uh.error
       /\ state.error = tree_l2_norm(tree_sub(params, hist.uh.new_param))

\* C3 as stated: update writes the point of the Anderson step into
\* params_history and next_point minus that point into residuals_history,
\* whatever the wrapped solver's init returns.
C3_HistoryHoldsAndersonPoint ==
  Updated
    => LET pos == inp.state.iter_num % hs
       IN  /\ state.params_history[pos] = AndersonOfInput
           /\ state.residuals_history[pos] = tree_sub(params, AndersonOfInput)

\* C3 amended: update writes into params_history the point that the wrapped
\* solver's init returned for the point of the Anderson step, and into
\* residuals_history next_point minus that returned point, next_point being
\* the output of the one wrapped-solver update started from it.
C3_HistoryHoldsInnerInitPoint ==
  Updated
    => LET pos == inp.state.iter_num % hs
           x   == InnerInitOfInput.params
       IN  /\ hist.uh.anderson = AndersonOfInput
           /\ params = solver_update(self.solver, x, InnerInitOfInput.state,
                                     inp.args).params
           /\ state.params_history[pos] = x
           /\ state.residuals_history[pos] = tree_sub(params, x)

\* C3 witness: an update whose wrapped solver's init moved the point.
C3_Witness ==
  /\ Updated
  /\ hist.uh.new_param # hist.uh.anderson
  /\ hist.uh.new_residual # ZeroPoint

\* Inner solver states other than the one the wrapper state holds.
AltSolverStates ==
  {[iter_num |-> 0, error |-> 0, velocity |-> ZeroPoint],
   [iter_num |-> 3, error |-> 7, velocity |-> [k \in Leaves |-> 4]]}

\* C4: update calls the wrapped solver's init once on the point of the
\* Anderson step and then its update once on the point and state that init
\* returned; the inner state held in the input state is not passed on, so
\* replacing it changes neither next_point nor the history; the returned
\* solver_state is the state that the one inner update returned.
C4_OneFreshInnerIteration ==
  Updated
    => /\ calls = <<InitCallRec(AndersonOfInput, inp.args),
                    UpdateCallRec(InnerInitOfInput.params,
                                  InnerInitOfInput.state, inp.args)>>
       /\ state.solver_state =
            solver_update(self.solver, InnerInitOfInput.params,
                          InnerInitOfInput.state, inp.args).state
       /\ \A alt \in AltSolverStates :
            LET r == update(self, inp.params,
                            [inp.state EXCEPT !.solver_state = alt], inp.args)
            IN  /\ r.params = params
                /\ r.calls = calls
                /\ r.state.params_history = state.params_history
                /\ r.state.residuals_history = state.residuals_history
                /\ r.state.residual_gram = state.residual_gram

\* C4 witness: an update of a wrapper whose solver's step depends on its
\* state, called with a state that holds a non-zero velocity.
C4_Witness ==
  /\ Updated
  /\ self.solver.kind = "momentum"
  /\ inp.state.solver_state.velocity # ZeroPoint
  /\ state.solver_state # inp.state.solver_state

\* C5: the k-th update after init passes position k mod history_size to
\* update_history, and outside that position params_history,
\* residuals_history and the Gram matrix (outside its row and column) are
\* those of the input state.
C5_OnlySlotAtPositionChanges ==
  Updated
    => LET pos == hist.uh.pos
           old == inp.state
       IN  /\ pos = (n_updates - 1) % hs
           /\ DOMAIN state.params_history = DOMAIN old.params_history
           /\ DOMAIN state.residuals_history = DOMAIN old.residuals_history
           /\ \A i \in DOMAIN old.params_history :
                i # pos => state.params_history[i] = old.params_history[i]
           /\ \A i \in DOMAIN old.residuals_history :
                i # pos => state.residuals_history[i] = old.residuals_history[i]
           /\ \A i, j \in DOMAIN old.residual_gram :
                (i # pos /\ j # pos)
                  => state.residual_gram[i][j] = old.residual_gram[i][j]

\* C5 witness: the update after the window has wrapped around, which
\* changed the residual in its slot.
C5_Witness ==
  /\ Updated
  /\ hs = 2
  /\ n_updates = 3
  /\ hist.uh.pos = 0
  /\ state.residuals_history[0] # inp.state.residuals_history[0]

Pt(c, d) == [k \in Leaves |-> IF k = 0 THEN c ELSE d]

\* C6: init calls the wrapped solver's init once on the initial guess and
\* then its update history_size times, each on the point and state the
\* previous call returned; build_history gets the history_size+1 points in
\* order (halving from 4 with history_size 2: 4, 2, 1); init returns the last
\* point and the inner state of the last warm-up update.
C6_WarmupChain ==
  Inited
    => LET r0 == solver_init(self.solver, inp.params, inp.args)
           out(i) == solver_update(self.solver, calls[i].params,
                                   calls[i].state, calls[i].args)
       IN  /\ Len(calls) = hs + 1
           /\ calls[1] = InitCallRec(inp.params, inp.args)
           /\ calls[2] = UpdateCallRec(r0.params, r0.state, inp.args)
           /\ \A i \in 3 .. (hs + 1) :
                calls[i] = UpdateCallRec(out(i - 1).params, out(i - 1).state,
                                         inp.args)
           /\ Len(hist.bh) = hs + 1
           /\ hist.bh[1] = r0.params
           /\ \A i \in 2 .. (hs + 1) : hist.bh[i] = out(i).params
           /\ params = hist.bh[hs + 1]
           /\ state.solver_state = out(hs + 1).state
           /\ (self.solver.kind = "halve" /\ hs = 2 /\ inp.params = Pt(4, 0)
                 /\ inp.args = 0)
                => hist.bh = <<Pt(4, 0), Pt(2, 0), Pt(1, 0)>>

\* C6 witness: the init of the halving solver from 4 with history_size 2.
C6_Witness ==
  /\ Inited
  /\ self.solver.kind = "halve"
  /\ hs = 2
  /\ inp = [params |-> Pt(4, 0), args |-> 0]
  /\ params = Pt(1, 0)

\* C7: after init and after any number of updates params_history has
\* history_size+1 entries and residuals_history has history_size entries.
C7_HistorySizes ==
  pc = "running"
    => /\ DOMAIN state.params_history = 0 .. hs
       /\ DOMAIN state.residuals_history = 0 .. (hs - 1)

\* C7 witness: a state returned by the second or a later update.
C7_Witness ==
  /\ Updated
  /\ n_updates >= 2
  /\ Cardinality(DOMAIN state.params_history) = 3

\* C8: after init and any number of updates the Gram matrix is symmetric and
\* its entry (i, j) is the dot product of residuals i and j.
C8_GramIsResidualProducts ==
  pc = "running"
    => \A i, j \in 0 .. (hs - 1) :
         /\ state.residual_gram[i][j] = state.residual_gram[j][i]
         /\ state.residual_gram[i][j] =
              tree_vdot(state.residuals_history[i], state.residuals_history[j])

\* C8 witness: an update that changed an off-diagonal entry of the matrix.
C8_Witness ==
  /\ Updated
  /\ hs = 2
  /\ state.residual_gram[0][1] # 0
  /\ state.residual_gram[0][1] # inp.state.residual_gram[0][1]

\* C9: the counter is 0 after init and each update returns the input
\* counter plus 1, so after init and n threaded updates it is n.
C9_CounterCountsUpdates ==
  /\ Inited => state.iter_num = 0
  /\ Updated => state.iter_num = inp.state.iter_num + 1
  /\ pc = "running" => state.iter_num = n_updates

\* C9 witness: the state after three threaded updates.
C9_Witness ==
  /\ Updated
  /\ n_updates = 3
  /\ inp.state.iter_num = 2

\* C10: a wrapper that was constructed has maxiter = solver.maxiter -
\* history_size and tol = solver.tol.
C10_ExposedMaxiterAndTol ==
  pc \in {"constructed", "running"}
    => /\ self.maxiter = self.solver.maxiter - self.history_size
       /\ self.tol = self.solver.tol

\* C10 witness: a wrapper over a solver with maxiter 2 and tol 2.
C10_Witness ==
  /\ pc = "constructed"
  /\ self.solver.maxiter = 2
  /\ self.solver.tol = 2
  /\ self.history_size = 1

\* C11: the wrapper's optimality_fun returns the value of the wrapped
\* solver's optimality_fun at the same point with the same extra arguments,
\* makes that one call and no other, and leaves the wrapper state as it was.
C11_OptimalityDelegates ==
  last = "optimality_fun"
    => /\ opt = solver_optimality_fun(self.solver, inp.params, inp.args)
       /\ calls = <<OptimalityCallRec(inp.params, inp.args)>>
       /\ state = inp.state

\* C11 witness: optimality_fun called after an update with a non-zero extra
\* argument, at a point that is not a fixed point.
C11_Witness ==
  /\ last = "optimality_fun"
  /\ n_updates >= 1
  /\ inp.args = 1
  /\ opt # ZeroPoint

\* C12: update leaves the state value that the caller passed in as it was:
\* every field of it, read after update has returned from the objects the
\* caller holds, has the value it had before the call; so a second update
\* with that same state and the same arguments returns what the first
\* returned.
C12_CallerStateUnchanged ==
  [][(last' = "update" /\ exc' = "none")
       => /\ inp'.state = state
          /\ LET again == update(self, inp'.params, inp'.state, inp'.args)
             IN  /\ again.params = params'
                 /\ again.state = state']_vars

\* C12 witness: after the second update the state that the caller passed in
\* holds, in the slot that update wrote, the entries it held before, while
\* the returned state holds other histories and another matrix.
C12_Witness ==
  /\ Updated
  /\ inp.state.iter_num = 1
  /\ inp.state.params_history # state.params_history
  /\ inp.state.residuals_history # state.residuals_history
  /\ inp.state.residual_gram # state.residual_gram

\* Values for the params argument of update other than the threaded one.
AltParams == {ZeroPoint, Pt(MaxCoord, 2), Pt(0 - MaxCoord, -1)}

\* C13: the result of update does not depend on its params argument: with
\* any other params and the same state and extra arguments it returns the
\* same next_point and the same next state.
C13_ParamsArgumentUnused ==
  Updated
    => \A p \in AltParams :
         LET r == update(self, p, inp.state, inp.args)
         IN  /\ r.params = params
             /\ r.state = state

\* C13 witness: an update called with params that differ from the point the
\* inner iteration was started from.
C13_Witness ==
  /\ Updated
  /\ inp.params # hist.uh.anderson
  /\ inp.params # calls[2].params
  /\ inp.params \notin AltParams

\* C14: every call that init and update make to the wrapped solver's init
\* or update carries the extra arguments of that wrapper call: one init and
\* history_size updates in init, one init and one update in update.
C14_ArgsForwarded ==
  last \in {"init", "update"}
    => /\ \A i \in 1 .. Len(calls) : calls[i].args = inp.args
       /\ Inited => /\ CountCalls(calls, "init") = 1
                    /\ CountCalls(calls, "update") = hs
       /\ Updated => /\ CountCalls(calls, "init") = 1
                     /\ CountCalls(calls, "update") = 1

\* C14 witness: an init with a non-zero extra argument and two warm-up steps.
C14_Witness ==
  /\ Inited
  /\ inp.args = 1
  /\ Len(calls) = 3
  /\ calls[3].args = 1

\* whether a logged call of the wrapped solver raised
RaisingCall(c) ==
  IF c.fn = "init"
  THEN solver_init_raises(self.solver, c.params, c.args)
  ELSE solver_update_raises(self.solver, c.params, c.state, c.args)

\* C15: when a call of the wrapped solver fails during init or update, the
\* failure reaches the caller, the failing call is the last call made to the
\* wrapped solver, no params or state is returned and the caller's state is
\* as it was.
C15_InnerFailurePropagates ==
  last \in {"init", "update"}
    => /\ \A i \in 1 .. Len(calls) :
            RaisingCall(calls[i])
              => /\ exc = "SolverError"
                 /\ i = Len(calls)
                 /\ hist = None
                 /\ last = "update" => (state = inp.state /\ params = inp.params)
                 /\ last = "init" => (pc = "constructed" /\ params = None
                                        /\ state = None)
       /\ exc = "SolverError" => RaisingCall(calls[Len(calls)])

\* C15 witness: an update, after one that returned, in which the wrapped
\* solver's update raised.
C15_Witness ==
  /\ last = "update"
  /\ exc = "SolverError"
  /\ n_updates >= 1
  /\ Len(calls) = 2
  /\ state.iter_num = n_updates

\* C16: in every state that init or update returned, the error is the error
\* of the solver_state of that state.
C16_ErrorIsInnerError ==
  pc = "running" => state.error = state.solver_state.error

\* C16 witness: an update whose inner error differs from the error that
\* update_history returned.
C16_Witness ==
  /\ Updated
  /\ state.error = state.solver_state.error
  /\ state.error # hist.uh.error

\* C17: after init and n threaded updates the wrapped solver's update has
\* been called history_size + n times and its init 1 + n times; after
\* maxiter updates of the wrapper that is solver.maxiter calls of update.
C17_BudgetAccounting ==
  (pc = "running" /\ exc = "none")
    => /\ inner_updates = hs + n_updates
       /\ inner_inits = 1 + n_updates
       /\ n_updates = self.maxiter => inner_updates = self.solver.maxiter

\* C17 witness: the wrapper has used up a budget of at least one update.
C17_Witness ==
  /\ Updated
  /\ self.maxiter >= 1
  /\ n_updates = self.maxiter
  /\ inner_updates = self.solver.maxiter

\* C18: the position that update passes to update_history is in
\* 0..history_size-1, an index of residuals_history and of the Gram matrix,
\* so the entry history_size of params_history is never overwritten.
C18_PositionInRange ==
  /\ pc = "running" => \A i \in 1 .. Len(pos_log) : pos_log[i] \in 0 .. (hs - 1)
  /\ Updated
       => /\ hist.uh.pos \in DOMAIN state.residuals_history
          /\ hist.uh.pos \in DOMAIN state.residual_gram
          /\ hist.uh.pos # hs
          /\ state.params_history[hs] = inp.state.params_history[hs]

\* C18 witness: the third update of a window of two, which wrote slot 0 and
\* left the last entry of params_history alone.
C18_Witness ==
  /\ Updated
  /\ hs = 2
  /\ Len(pos_log) = 3
  /\ pos_log[3] = 0
  /\ state.params_history[0] # inp.state.params_history[0]

\* C19: consecutive updates write consecutive positions modulo history_size,
\* so any history_size consecutive updates write every position once, and
\* after history_size updates no residual of the warm-up is left.
C19_RoundRobin ==
  pc = "running"
    => /\ Len(pos_log) = n_updates
       /\ \A i \in 1 .. (Len(pos_log) - 1) :
            pos_log[i + 1] = (pos_log[i] + 1) % hs
       /\ \A j \in 1 .. (Len(pos_log) - hs + 1) :
            {pos_log[k] : k \in j .. (j + hs - 1)} = 0 .. (hs - 1)
       /\ n_updates >= hs
            => \A slot \in DOMAIN state.residuals_history :
                 res_writer[slot] >= 1

\* C19 witness: two updates over a window of two have replaced both
\* residuals of the warm-up.
C19_Witness ==
  /\ pc = "running"
  /\ hs = 2
  /\ n_updates = 2
  /\ res_writer[0] = 1
  /\ res_writer[1] = 2

====
